---- MODULE Spec2Model ----
(***************************************************************************)
(* Model of the transaction importer: TransactionImporter                  *)
(* (src/src/importer.py) and ActualBudgetClient (src/src/actual_client.py).*)
(*                                                                         *)
(* Python values are tagged records so that values of different Python     *)
(* types can be compared: [none |-> TRUE] is None, [int |-> n] an int,     *)
(* [str |-> s] a str.  A str is a sequence of tokens; a token is a chunk   *)
(* of characters.  In a date, "D" is a well-formed YYYY-MM-DD chunk, "T"   *)
(* the letter T, "S" a space and "H" an HH:MM:SS chunk, so that            *)
(* "2024-03-05T12:00:00" is <<"D", "T", "H">>.                             *)
(* A dict of the finance API is a record whose missing keys hold Absent.   *)
(***************************************************************************)
EXTENDS Integers, Sequences, FiniteSets, TLC

\* ---------------------------------------------------------------- bounds
MaxTxns == 2
MaxRuns == 2
MaxFaults == 1
MaxDateLen == 3

\* ---------------------------------------------------------- Python values
Absent == [absent |-> TRUE]
None == [none |-> TRUE]
I(n) == [int |-> n]
S(s) == [str |-> s]

IsStr(v) == "str" \in DOMAIN v
IsInt(v) == "int" \in DOMAIN v

\* bool(v)
Truthy(v) ==
    IF IsStr(v) THEN v.str # <<>>
    ELSE IF IsInt(v) THEN v.int # 0
    ELSE FALSE

Digit(d) ==
    CASE d = 0 -> "0" [] d = 1 -> "1" [] d = 2 -> "2" [] d = 3 -> "3"
      [] d = 4 -> "4" [] d = 5 -> "5" [] d = 6 -> "6" [] d = 7 -> "7"
      [] d = 8 -> "8" [] d = 9 -> "9"

RECURSIVE NatStr(_)
NatStr(n) == IF n < 10 THEN <<Digit(n)>> ELSE NatStr(n \div 10) \o <<Digit(n % 10)>>

\* str(v), as a token sequence
Str(v) ==
    IF IsStr(v) THEN v.str
    ELSE IF IsInt(v) THEN (IF v.int < 0 THEN <<"-">> \o NatStr(0 - v.int) ELSE NatStr(v.int))
    ELSE <<"None">>

\* d.get(k, default)
Get(d, k, default) == IF d[k] = Absent THEN default ELSE d[k]

\* "tok in s" for a one-character token
Contains(s, tok) == \E i \in 1..Len(s) : s[i] = tok

RECURSIVE SplitFirst(_, _)
\* s.split(tok)[0]: the part of s before the first tok
SplitFirst(s, tok) ==
    IF s = <<>> \/ Head(s) = tok THEN <<>>
    ELSE <<Head(s)>> \o SplitFirst(Tail(s), tok)

\* account_mapping.get(k)
MapGet(account_mapping, k) ==
    IF k \in DOMAIN account_mapping THEN S(account_mapping[k]) ELSE None

\* ------------------------------------------------- transform_transaction
NoResult == None

Unmapped_Off(finance_account_id, account_mapping) == FALSE

\* if account_mapping and finance_account_id not in account_mapping
Unmapped(finance_account_id, account_mapping) ==
    DOMAIN account_mapping # {} /\ finance_account_id \notin DOMAIN account_mapping

NormalizeDate_Last(date) ==
    IF IsStr(date) /\ Contains(date.str, "T")
    THEN S(<<date.str[Len(date.str)]>>)
    ELSE date

\* if isinstance(date, str) and "T" in date: date = date.split("T")[0]
NormalizeDate(date) ==
    IF IsStr(date) /\ Contains(date.str, "T")
    THEN S(SplitFirst(date.str, "T"))
    ELSE date

PayeeName_MerchantFirst(finance_transaction) ==
    Get(finance_transaction, "Merchant",
        Get(finance_transaction, "Vendor", S(<<"Unknown">>)))

\* finance_transaction.get("Vendor", finance_transaction.get("Merchant", "Unknown"))
PayeeName(finance_transaction) ==
    Get(finance_transaction, "Vendor",
        Get(finance_transaction, "Merchant", S(<<"Unknown">>)))

ImportedId_Blank(finance_transaction) ==
    S(Str(Get(finance_transaction, "ID", S(<<>>))))

\* str(finance_transaction.get("ID"))
ImportedId(finance_transaction) ==
    S(Str(Get(finance_transaction, "ID", None)))

transform_transaction(finance_transaction, account_mapping) ==
    LET finance_account_id == Str(Get(finance_transaction, "AccountID", S(<<>>)))
    IN  IF Unmapped(finance_account_id, account_mapping)
        THEN NoResult
        ELSE [ account_id  |-> IF DOMAIN account_mapping # {}
                               THEN MapGet(account_mapping, finance_account_id)
                               ELSE S(finance_account_id),
               date        |-> NormalizeDate(Get(finance_transaction, "Date", None)),
               amount      |-> Get(finance_transaction, "Amount", I(0)),
               payee_name  |-> PayeeName(finance_transaction),
               notes       |-> Get(finance_transaction, "Note", S(<<>>)),
               imported_id |-> ImportedId(finance_transaction),
               cleared     |-> Get(finance_transaction, "Status", None) = S(<<"SETTLED">>) ]

Collect_Front(acc, item) == <<item>> \o acc

\* transformed_transactions.append(transformed); src remembers the index fetched
Collect(acc, item) == Append(acc, item)

RECURSIVE TransformLoop(_, _, _, _)
\* for txn in finance_transactions: ... if transformed: append
TransformLoop(finance_transactions, account_mapping, i, acc) ==
    IF i > Len(finance_transactions) THEN acc
    ELSE LET transformed == transform_transaction(finance_transactions[i], account_mapping)
         IN  TransformLoop(finance_transactions, account_mapping, i + 1,
                 IF transformed # NoResult
                 THEN Collect(acc, [txn |-> transformed, src |-> i])
                 ELSE acc)

\* --------------------------------------------------- ActualBudgetClient
\* datetime.strptime(date, "%Y-%m-%d") accepts exactly a date-only string
StrptimeOk(s) == s = <<"D">>

\* import_transaction raises inside its try for this transaction whatever
\* the backend does
DateRejected(date) == IsStr(date) /\ ~StrptimeOk(date.str)

ExistingIds_Inverted(existing) ==
    {existing[k].imported_id : k \in {j \in 1..Len(existing) : ~Truthy(existing[j].imported_id)}}

\* {t.imported_id for t in existing if t.imported_id}
ExistingIds(existing) ==
    {existing[k].imported_id : k \in {j \in 1..Len(existing) : Truthy(existing[j].imported_id)}}

IsDuplicate_AnyId(transaction, ids) == Truthy(transaction.imported_id)

\* imported_id and imported_id in existing_ids
IsDuplicate(transaction, ids) ==
    Truthy(transaction.imported_id) /\ transaction.imported_id \in ids

ZeroStats == [success |-> 0, failed |-> 0, skipped |-> 0]

Bump_Twice(st, key) == [st EXCEPT ![key] = @ + 2]

\* stats[key] += 1
Bump(st, key) == [st EXCEPT ![key] = @ + 1]

\* return {"success": 0, "failed": 0, "skipped": 0, "dry_run": len(...)}
DryStats(n) == [success |-> 0, failed |-> 0, skipped |-> 0, dry_run |-> n]

\* --------------------------------------------------------------- inputs
Tokens == {"D", "T", "S", "H"}

RECURSIVE SeqsUpTo(_, _)
SeqsUpTo(A, n) ==
    IF n = 0 THEN {<<>>}
    ELSE LET shorter == SeqsUpTo(A, n - 1)
         IN  shorter \cup {Append(s, a) : s \in {t \in shorter : Len(t) = n - 1}, a \in A}

DateOnly == S(<<"D">>)
DateT == S(<<"D", "T", "H">>)
DateSpace == S(<<"D", "S", "H">>)

AllDates == {S(s) : s \in SeqsUpTo(Tokens, MaxDateLen)} \cup {None, Absent}

EmptyMapping == [k \in {} |-> <<>>]
Mapping1 == [k \in {<<"1">>} |-> <<"A">>]
Mapping2 == [k \in {<<"1">>, <<"2">>} |-> IF k = <<"1">> THEN <<"A">> ELSE <<"B">>]
Mappings == {EmptyMapping, Mapping1}
MapperMappings == {EmptyMapping, Mapping1, Mapping2}

Raw(acc, date, id) ==
    [AccountID |-> acc, Date |-> date, Amount |-> I(-5), Vendor |-> S(<<"V">>),
     Merchant |-> Absent, Note |-> Absent, ID |-> id, Status |-> S(<<"SETTLED">>)]

\* the records the finance API returns in the runs that are explored
SampleRaw ==
    { Raw(I(1), DateT, I(7)),
      Raw(S(<<"9">>), DateSpace, S(<<"7">>)),
      Raw(S(<<"1">>), DateOnly, S(<<>>)),
      Raw(Absent, None, Absent) }

\* the records the mapper is applied to on its own
AllRaw ==
    [ AccountID : {Absent, None, I(1), S(<<"1">>), S(<<"9">>)},
      Date      : AllDates,
      Amount    : {Absent, I(-5)},
      Vendor    : {Absent, None, S(<<"V">>)},
      Merchant  : {Absent, S(<<"M">>)},
      Note      : {Absent, S(<<"n">>)},
      ID        : {Absent, I(7), S(<<"7">>), S(<<>>)},
      Status    : {Absent, S(<<"SETTLED">>), S(<<"PENDING">>)} ]

Stored(id) ==
    [account_id |-> S(<<"A">>), date |-> DateOnly, amount |-> I(3),
     payee_name |-> S(<<"V">>), notes |-> S(<<>>), imported_id |-> id, cleared |-> TRUE]

\* what the budget holds before the first run
InitStores == {<<>>, <<Stored(S(<<"7">>)), Stored(None)>>}

\* ---------------------------------------------------------------- state
VARIABLES
    source,        \* what the finance API returns for the date range
    mapping,       \* TransactionImporter.account_mapping
    store,         \* transactions the budget server holds (committed)
    runs,          \* calls of import_transactions so far
    faults,        \* failures of the two remote systems so far
    pc,            \* position in import_transactions
    dryRun,        \* the dry_run argument
    raw,           \* finance_transactions
    transformed,   \* transformed_transactions
    origin,        \* origin[k]: index in raw that transformed[k] came from
    session,       \* the local budget of the open connection
    connected,     \* self.actual is entered
    existing_ids,  \* existing_ids of ActualBudgetClient.import_transactions
    idx,           \* position of the for loop over transactions
    stats,         \* stats of ActualBudgetClient.import_transactions
    disp,          \* disp[k]: what the loop did with transformed[k]
    log,           \* operations on the budget backend in this run, in order
    result,        \* the ImportStats returned by this run, NoStats if none
    error,         \* the error raised to the caller by this run, "" if none
    prev           \* outcome of the previous run

vars == <<source, mapping, store, runs, faults, pc, dryRun, raw, transformed, origin,
          session, connected, existing_ids, idx, stats, disp, log, result, error, prev>>

config == <<source, mapping>>
locals == <<raw, transformed, origin, session, connected, existing_ids, idx, stats, disp, log>>

NoStats == None
NoRun == None

Op(name, i, ok) == [op |-> name, i |-> i, ok |-> ok]

RunLocalsInit ==
    /\ transformed = <<>>
    /\ origin = <<>>
    /\ session = <<>>
    /\ connected = FALSE
    /\ existing_ids = {}
    /\ idx = 1
    /\ stats = ZeroStats
    /\ disp = <<>>
    /\ log = <<>>
    /\ result = NoStats
    /\ error = ""

Init ==
    /\ source \in SeqsUpTo(SampleRaw, MaxTxns)
    /\ mapping \in Mappings
    /\ store \in InitStores
    /\ runs = 0
    /\ faults = 0
    /\ pc = "idle"
    /\ prev = NoRun
    /\ dryRun = FALSE
    /\ raw = <<>>
    /\ RunLocalsInit

\* the mapper on its own: one record, already fetched
InitMap ==
    /\ source \in {<<r>> : r \in AllRaw}
    /\ mapping \in MapperMappings
    /\ store = <<>>
    /\ runs = 1
    /\ faults = 0
    /\ pc = "transform"
    /\ prev = NoRun
    /\ dryRun = FALSE
    /\ raw = source
    /\ RunLocalsInit

\* ------------------------------------------- TransactionImporter actions
\* import_transactions(dry_run = d): get_all_transactions returns
FetchSourceOk(d) ==
    /\ pc = "idle"
    /\ runs < MaxRuns
    /\ runs' = runs + 1
    /\ dryRun' = d
    /\ raw' = source
    /\ pc' = "transform"
    /\ UNCHANGED <<source, mapping, store, faults, transformed, origin, session, connected,
                   existing_ids, idx, stats, disp, log, result, error, prev>>

\* import_transactions(dry_run = d): get_all_transactions raises
FetchSourceFail(d) ==
    /\ pc = "idle"
    /\ runs < MaxRuns
    /\ faults < MaxFaults
    /\ runs' = runs + 1
    /\ faults' = faults + 1
    /\ dryRun' = d
    /\ error' = "SourceFetchError"
    /\ pc' = "done"
    /\ UNCHANGED <<source, mapping, store, raw, transformed, origin, session, connected,
                   existing_ids, idx, stats, disp, log, result, prev>>

AfterTransform_Live(d) == "connect"

\* if dry_run: ... return; else: with ActualBudgetClient(...)
AfterTransform(d) == IF d THEN "dry" ELSE "connect"

\* the transform loop
TransformStep ==
    /\ pc = "transform"
    /\ LET collected == TransformLoop(raw, mapping, 1, <<>>)
       IN  /\ transformed' = [k \in 1..Len(collected) |-> collected[k].txn]
           /\ origin' = [k \in 1..Len(collected) |-> collected[k].src]
    /\ pc' = AfterTransform(dryRun)
    /\ UNCHANGED <<source, mapping, store, runs, faults, dryRun, raw, session, connected,
                   existing_ids, idx, stats, disp, log, result, error, prev>>

\* the dry-run branch
DryRunReturn ==
    /\ pc = "dry"
    /\ result' = DryStats(Len(transformed))
    /\ pc' = "done"
    /\ UNCHANGED <<source, mapping, store, runs, faults, dryRun, raw, transformed, origin,
                   session, connected, existing_ids, idx, stats, disp, log, error, prev>>

\* ---------------------------------------------- ActualBudgetClient actions
\* __enter__ / connect succeeds: the budget is downloaded
ConnectOk ==
    /\ pc = "connect"
    /\ connected' = TRUE
    /\ session' = store
    /\ log' = Append(log, Op("connect", 0, TRUE))
    /\ pc' = "fetch_existing"
    /\ UNCHANGED <<source, mapping, store, runs, faults, dryRun, raw, transformed, origin,
                   existing_ids, idx, stats, disp, result, error, prev>>

\* __enter__ / connect raises: the with body and __exit__ do not run
ConnectFail ==
    /\ pc = "connect"
    /\ faults < MaxFaults
    /\ faults' = faults + 1
    /\ log' = Append(log, Op("connect", 0, FALSE))
    /\ error' = "DestinationAuthError"
    /\ pc' = "done"
    /\ UNCHANGED <<source, mapping, store, runs, dryRun, raw, transformed, origin, session,
                   connected, existing_ids, idx, stats, disp, result, prev>>

\* get_existing_transactions returns
FetchExistingOk ==
    /\ pc = "fetch_existing"
    /\ existing_ids' = ExistingIds(session)
    /\ log' = Append(log, Op("fetch", 0, TRUE))
    /\ pc' = "loop"
    /\ UNCHANGED <<source, mapping, store, runs, faults, dryRun, raw, transformed, origin,
                   session, connected, idx, stats, disp, result, error, prev>>

FetchExistingFail_Raises ==
    /\ pc = "fetch_existing"
    /\ faults < MaxFaults
    /\ faults' = faults + 1
    /\ log' = Append(log, Op("fetch", 0, FALSE))
    /\ error' = "DedupeFetchError"
    /\ pc' = "exit"
    /\ UNCHANGED <<source, mapping, store, runs, dryRun, raw, transformed, origin,
                   session, connected, existing_ids, idx, stats, disp, result, prev>>

\* get_existing_transactions raises: caught, existing_ids stays set()
FetchExistingFail ==
    /\ pc = "fetch_existing"
    /\ faults < MaxFaults
    /\ faults' = faults + 1
    /\ existing_ids' = {}
    /\ log' = Append(log, Op("fetch", 0, FALSE))
    /\ pc' = "loop"
    /\ UNCHANGED <<source, mapping, store, runs, dryRun, raw, transformed, origin,
                   session, connected, idx, stats, disp, result, error, prev>>

\* loop body: the transaction is a duplicate
SkipTxn ==
    /\ pc = "loop"
    /\ idx <= Len(transformed)
    /\ IsDuplicate(transformed[idx], existing_ids)
    /\ stats' = Bump(stats, "skipped")
    /\ disp' = Append(disp, "skipped")
    /\ idx' = idx + 1
    /\ UNCHANGED <<source, mapping, store, runs, faults, pc, dryRun, raw, transformed, origin,
                   session, connected, existing_ids, log, result, error, prev>>

CreateOk_Commits ==
    /\ pc = "loop"
    /\ idx <= Len(transformed)
    /\ ~IsDuplicate(transformed[idx], existing_ids)
    /\ ~DateRejected(transformed[idx].date)
    /\ session' = Append(session, transformed[idx])
    /\ store' = session'
    /\ log' = log \o <<Op("create", idx, TRUE), Op("commit", 0, TRUE)>>
    /\ stats' = Bump(stats, "success")
    /\ disp' = Append(disp, "success")
    /\ idx' = idx + 1
    /\ UNCHANGED <<source, mapping, runs, faults, pc, dryRun, raw, transformed, origin,
                   connected, existing_ids, result, error, prev>>

CreateOk_Remembers ==
    /\ pc = "loop"
    /\ idx <= Len(transformed)
    /\ ~IsDuplicate(transformed[idx], existing_ids)
    /\ ~DateRejected(transformed[idx].date)
    /\ session' = Append(session, transformed[idx])
    /\ existing_ids' = existing_ids \cup {transformed[idx].imported_id}
    /\ log' = Append(log, Op("create", idx, TRUE))
    /\ stats' = Bump(stats, "success")
    /\ disp' = Append(disp, "success")
    /\ idx' = idx + 1
    /\ UNCHANGED <<source, mapping, store, runs, faults, pc, dryRun, raw, transformed, origin,
                   connected, result, error, prev>>

\* loop body: import_transaction returns True
CreateOk ==
    /\ pc = "loop"
    /\ idx <= Len(transformed)
    /\ ~IsDuplicate(transformed[idx], existing_ids)
    /\ ~DateRejected(transformed[idx].date)
    /\ session' = Append(session, transformed[idx])
    /\ log' = Append(log, Op("create", idx, TRUE))
    /\ stats' = Bump(stats, "success")
    /\ disp' = Append(disp, "success")
    /\ idx' = idx + 1
    /\ UNCHANGED <<source, mapping, store, runs, faults, pc, dryRun, raw, transformed, origin,
                   connected, existing_ids, result, error, prev>>

CreateFail_Raises ==
    /\ pc = "loop"
    /\ idx <= Len(transformed)
    /\ ~IsDuplicate(transformed[idx], existing_ids)
    /\ \/ /\ DateRejected(transformed[idx].date) \/ ~IsStr(transformed[idx].date)
          /\ faults' = faults
       \/ /\ ~DateRejected(transformed[idx].date)
          /\ IsStr(transformed[idx].date)
          /\ faults < MaxFaults
          /\ faults' = faults + 1
    /\ log' = Append(log, Op("create", idx, FALSE))
    /\ error' = "SubmissionError"
    /\ pc' = "exit"
    /\ UNCHANGED <<source, mapping, store, runs, dryRun, raw, transformed, origin,
                   session, connected, existing_ids, idx, stats, disp, result, prev>>

\* loop body: import_transaction catches an exception and returns False
CreateFail ==
    /\ pc = "loop"
    /\ idx <= Len(transformed)
    /\ ~IsDuplicate(transformed[idx], existing_ids)
    /\ \/ /\ DateRejected(transformed[idx].date) \/ ~IsStr(transformed[idx].date)
          /\ faults' = faults
       \/ /\ ~DateRejected(transformed[idx].date)
          /\ IsStr(transformed[idx].date)
          /\ faults < MaxFaults
          /\ faults' = faults + 1
    /\ log' = Append(log, Op("create", idx, FALSE))
    /\ stats' = Bump(stats, "failed")
    /\ disp' = Append(disp, "failed")
    /\ idx' = idx + 1
    /\ UNCHANGED <<source, mapping, store, runs, pc, dryRun, raw, transformed, origin,
                   session, connected, existing_ids, result, error, prev>>

\* self.actual.commit() returns
CommitOk ==
    /\ pc = "loop"
    /\ idx > Len(transformed)
    /\ store' = session
    /\ log' = Append(log, Op("commit", 0, TRUE))
    /\ pc' = "exit"
    /\ UNCHANGED <<source, mapping, runs, faults, dryRun, raw, transformed, origin, session,
                   connected, existing_ids, idx, stats, disp, result, error, prev>>

CommitFail_NoRelease ==
    /\ pc = "loop"
    /\ idx > Len(transformed)
    /\ faults < MaxFaults
    /\ faults' = faults + 1
    /\ store' \in {store, session}
    /\ log' = Append(log, Op("commit", 0, FALSE))
    /\ error' = "CommitError"
    /\ pc' = "done"
    /\ UNCHANGED <<source, mapping, runs, dryRun, raw, transformed, origin, session,
                   connected, existing_ids, idx, stats, disp, result, prev>>

\* self.actual.commit() raises; the server holds the changes or not
CommitFail ==
    /\ pc = "loop"
    /\ idx > Len(transformed)
    /\ faults < MaxFaults
    /\ faults' = faults + 1
    /\ store' \in {store, session}
    /\ log' = Append(log, Op("commit", 0, FALSE))
    /\ error' = "CommitError"
    /\ pc' = "exit"
    /\ UNCHANGED <<source, mapping, runs, dryRun, raw, transformed, origin, session,
                   connected, existing_ids, idx, stats, disp, result, prev>>

\* __exit__ / disconnect, then return stats or re-raise
Disconnect ==
    /\ pc = "exit"
    /\ connected
    /\ connected' = FALSE
    /\ log' = Append(log, Op("disconnect", 0, TRUE))
    /\ result' = IF error = "" THEN stats ELSE NoStats
    /\ pc' = "done"
    /\ UNCHANGED <<source, mapping, store, runs, faults, dryRun, raw, transformed, origin,
                   session, existing_ids, idx, stats, disp, error, prev>>

\* the caller has the outcome; the next call starts afresh
Return ==
    /\ pc = "done"
    /\ prev' = [dry |-> dryRun, result |-> result, error |-> error]
    /\ pc' = "idle"
    /\ dryRun' = FALSE
    /\ raw' = <<>>
    /\ transformed' = <<>>
    /\ origin' = <<>>
    /\ session' = <<>>
    /\ connected' = FALSE
    /\ existing_ids' = {}
    /\ idx' = 1
    /\ stats' = ZeroStats
    /\ disp' = <<>>
    /\ log' = <<>>
    /\ result' = NoStats
    /\ error' = ""
    /\ UNCHANGED <<source, mapping, store, runs, faults>>

Next ==
    \/ \E d \in BOOLEAN : FetchSourceOk(d)
    \/ \E d \in BOOLEAN : FetchSourceFail(d)
    \/ TransformStep
    \/ DryRunReturn
    \/ ConnectOk
    \/ ConnectFail
    \/ FetchExistingOk
    \/ FetchExistingFail
    \/ SkipTxn
    \/ CreateOk
    \/ CreateFail
    \/ CommitOk
    \/ CommitFail
    \/ Disconnect
    \/ Return

Spec == Init /\ [][Next]_vars

NextMap == TransformStep

SpecMap == InitMap /\ [][NextMap]_vars

TypeOK ==
    /\ pc \in {"idle", "transform", "dry", "connect", "fetch_existing", "loop", "exit", "done"}
    /\ runs \in 0..MaxRuns
    /\ faults \in 0..MaxFaults
    /\ idx \in 1..(Len(transformed) + 1)
    /\ Len(disp) = idx - 1
    /\ Len(origin) = Len(transformed)

\* ------------------------------------------------------------ properties
LogIdx(name) == {k \in 1..Len(log) : log[k].op = name}
LogHas(name, ok) == \E k \in 1..Len(log) : log[k].op = name /\ log[k].ok = ok
CreatesOf(i) == {k \in 1..Len(log) : log[k].op = "create" /\ log[k].i = i}

\* this run is live and returned stats, and so did the run before it, on the
\* same source list and mapping
SecondLiveRun ==
    /\ pc = "done"
    /\ ~dryRun
    /\ result # NoStats
    /\ prev # NoRun
    /\ ~prev.dry
    /\ prev.result # NoStats

\* C1 as stated: the second of two live runs on identical inputs, against a
\* destination that hands back what it persisted, returns success = 0,
\* skipped = N, failed = 0, N the success count of the first.
C1_Original ==
    (SecondLiveRun /\ LogHas("fetch", TRUE)) =>
        result = [success |-> 0, failed |-> 0, skipped |-> prev.result.success]

\* C1 amended: if the first run had no failure, every normalized transaction
\* has a non-empty imported-id and the second run's fetch of the existing
\* transactions succeeds, the second run returns success = 0, failed = 0 and
\* skipped = N + K, N and K the success and skipped counts of the first run.
C1_Idempotent ==
    ( /\ SecondLiveRun
      /\ prev.result.failed = 0
      /\ \A k \in 1..Len(transformed) : Truthy(transformed[k].imported_id)
      /\ LogHas("fetch", TRUE) )
    => result = [success |-> 0, failed |-> 0,
                 skipped |-> prev.result.success + prev.result.skipped]

C1_Witness ==
    /\ SecondLiveRun
    /\ prev.result.failed = 0
    /\ prev.result.success > 0
    /\ LogHas("fetch", TRUE)
    /\ result.success = 0
    /\ result.skipped = prev.result.success + prev.result.skipped

\* the transactions the mapper does not drop
NonAbsent == {i \in 1..Len(raw) : transform_transaction(raw[i], mapping) # NoResult}

\* C2: in a dry run no operation reaches the destination (no connect, fetch,
\* create or commit), the destination is unchanged, and the stats returned
\* are dry_run = number of non-absent transactions, the other counters 0.
C2_DryRun ==
    /\ [](dryRun =>
            /\ log = <<>>
            /\ ~connected
            /\ (pc = "done" /\ error = "" =>
                    result = [success |-> 0, failed |-> 0, skipped |-> 0,
                              dry_run |-> Cardinality(NonAbsent)]))
    /\ [][(dryRun \/ dryRun') => store' = store]_vars

C2_Witness ==
    /\ pc = "done"
    /\ dryRun
    /\ result # NoStats
    /\ result.dry_run > 0
    /\ Len(raw) > result.dry_run
    /\ store # <<>>

\* C3: in a live run a normalized transaction is skipped, with no create
\* attempted, iff its imported-id is non-empty and in the existing set that
\* was fetched; otherwise exactly one create is attempted for it.
C3_DedupeRule ==
    \A k \in 1..Len(disp) :
        LET id == transformed[k].imported_id
            dup == id.str # <<>> /\ id \in existing_ids
        IN  /\ (disp[k] = "skipped") <=> dup
            /\ Cardinality(CreatesOf(k)) = IF dup THEN 0 ELSE 1

C3_Witness ==
    /\ pc = "done"
    /\ result = [success |-> 1, failed |-> 0, skipped |-> 1]
    /\ disp = <<"skipped", "success">>

FailedCreates == {k \in LogIdx("create") : ~log[k].ok}
OkCreates == {k \in LogIdx("create") : log[k].ok}
AllProcessed ==
    /\ Len(disp) = Len(transformed)
    /\ \A k \in 1..Len(transformed) : disp[k] = "skipped" \/ CreatesOf(k) # {}

\* C4: a create that fails adds exactly one to failed and nothing to success;
\* the later transactions are still processed, the final commit is still
\* issued and the run returns its stats: it is not aborted.
C4_CreateFailureNonFatal ==
    /\ stats.failed = Cardinality(FailedCreates)
    /\ stats.success = Cardinality(OkCreates)
    /\ FailedCreates # {} => error \in {"", "CommitError"}
    /\ (FailedCreates # {} /\ pc \in {"exit", "done"}) =>
           AllProcessed /\ LogIdx("commit") # {}
    /\ (FailedCreates # {} /\ pc = "done" /\ LogHas("commit", TRUE)) =>
           result = stats

C4_Witness ==
    /\ pc = "done"
    /\ disp = <<"failed", "success">>
    /\ result = [success |-> 1, failed |-> 1, skipped |-> 0]
    /\ LogHas("commit", TRUE)

\* C5: when the fetch of the existing transactions fails in a live run, the
\* existing-id set is empty, skipped stays 0, one create is attempted for
\* every normalized transaction, and the failure does not reach the caller.
C5_FetchFailureNonFatal ==
    LogHas("fetch", FALSE) =>
        /\ existing_ids = {}
        /\ stats.skipped = 0
        /\ error \in {"", "CommitError"}
        /\ pc \in {"loop", "exit", "done"}
        /\ pc \in {"exit", "done"} =>
               \A k \in 1..Len(transformed) : Cardinality(CreatesOf(k)) = 1
        /\ (pc = "done" /\ LogHas("commit", TRUE)) => result = stats

C5_Witness ==
    /\ pc = "done"
    /\ LogHas("fetch", FALSE)
    /\ result # NoStats
    /\ session # <<>>
    /\ session[1] = Stored(S(<<"7">>))
    /\ \E k \in 1..Len(disp) :
           disp[k] = "success" /\ transformed[k].imported_id = S(<<"7">>)

\* C6: a live run whose connection was established issues commit exactly
\* once, after every normalized transaction was skipped or had its create
\* attempted and never between creates, also when the batch is empty or
\* every create failed.
C6_SingleFinalCommit ==
    /\ Cardinality(LogIdx("commit")) <= 1
    /\ \A c \in LogIdx("commit") :
           /\ AllProcessed
           /\ \A k \in LogIdx("create") : k < c
    /\ (pc \in {"exit", "done"} /\ LogHas("connect", TRUE)) =>
           Cardinality(LogIdx("commit")) = 1

C6_Witness ==
    /\ pc = "done"
    /\ Cardinality(LogIdx("commit")) = 1
    /\ Len(transformed) > 1
    /\ stats.failed = Len(transformed)

\* C7: once the connection is acquired it is released exactly once before
\* import_transactions returns or raises; when commit fails the error
\* reaches the caller and no stats are returned, although every create of
\* the batch has been attempted.
C7_ReleaseAndCommitError ==
    /\ connected => pc \in {"fetch_existing", "loop", "exit"}
    /\ Cardinality(LogIdx("disconnect")) <= 1
    /\ LogIdx("disconnect") # {} => LogHas("connect", TRUE) /\ ~connected
    /\ (pc = "done" /\ LogHas("connect", TRUE)) =>
           /\ ~connected
           /\ Cardinality(LogIdx("disconnect")) = 1
           /\ log[Len(log)].op = "disconnect"
    /\ (pc = "done" /\ LogHas("commit", FALSE)) =>
           /\ error = "CommitError"
           /\ result = NoStats
           /\ AllProcessed

C7_Witness ==
    /\ pc = "done"
    /\ error = "CommitError"
    /\ result = NoStats
    /\ ~connected
    /\ stats.success > 0
    /\ log[Len(log)].op = "disconnect"

\* the transform loop has run in this call
Transformed == pc \notin {"idle", "transform"} /\ error # "SourceFetchError"

\* C8: the normalized sequence is the fetched sequence without the absent
\* results, in the fetched order, and the creates of a live run are attempted
\* in that same order: none precedes one fetched earlier.
C8_Ordering ==
    /\ Transformed =>
          /\ \A k \in 1..Len(origin) :
                 /\ origin[k] \in 1..Len(raw)
                 /\ transformed[k] = transform_transaction(raw[origin[k]], mapping)
          /\ \A j, k \in 1..Len(origin) : j < k => origin[j] < origin[k]
          /\ {origin[k] : k \in 1..Len(origin)} = NonAbsent
    /\ \A j, k \in LogIdx("create") :
          j < k => log[j].i < log[k].i /\ origin[log[j].i] < origin[log[k].i]

C8_Witness ==
    /\ pc = "done"
    /\ Cardinality(LogIdx("create")) = 2
    /\ transformed[1] # transformed[2]
    /\ mapping # EmptyMapping

\* the fetched records whose account the non-empty mapping does not hold
UnmappedRaw ==
    {i \in 1..Len(raw) :
        /\ DOMAIN mapping # {}
        /\ Str(Get(raw[i], "AccountID", S(<<>>))) \notin DOMAIN mapping}

Counted ==
    stats.success + stats.failed + stats.skipped
        + (IF result # NoStats /\ "dry_run" \in DOMAIN result THEN result.dry_run ELSE 0)

\* C9: with a non-empty mapping, a record whose stringified account id is
\* not a key of the mapping maps to absent, is never submitted to the
\* destination, and adds to none of success, failed, skipped and dry_run.
C9_UnmappedDropped ==
    /\ \A i \in UnmappedRaw :
          /\ transform_transaction(raw[i], mapping) = NoResult
          /\ \A k \in 1..Len(origin) : origin[k] # i
          /\ \A c \in LogIdx("create") : origin[log[c].i] # i
    /\ Counted <= Len(raw) - Cardinality(UnmappedRaw)
    /\ (pc = "done" /\ result # NoStats) => Counted = Len(raw) - Cardinality(UnmappedRaw)

C9_Witness ==
    /\ pc = "done"
    /\ result # NoStats
    /\ ~dryRun
    /\ Cardinality(UnmappedRaw) = 1
    /\ Len(raw) = 2
    /\ Counted = 1

NoTimeOfDay(date) == ~IsStr(date) \/ ~Contains(date.str, "H")

\* every time-of-day chunk of s comes after a "T"
TimeAfterT(s) ==
    \A i \in 1..Len(s) : s[i] = "H" => \E j \in 1..(i - 1) : s[j] = "T"

\* C10 as stated: whatever the form of the date of r, the date of map(r, m)
\* has no time-of-day component.
C10_Original ==
    (Transformed /\ transformed # <<>>) => NoTimeOfDay(transformed[1].date)

\* C10 amended: if the date of r is a string whose time-of-day component, if
\* any, follows a "T", the date of map(r, m) is the part before the first
\* "T" and has no time-of-day component; "2024-03-05T12:00:00" becomes
\* "2024-03-05".
C10_DateNormalized ==
    (Transformed /\ transformed # <<>>) =>
        LET in == raw[origin[1]].Date
            out == transformed[1].date
        IN  /\ (in # Absent /\ IsStr(in) /\ TimeAfterT(in.str)) =>
                   /\ IsStr(out)
                   /\ ~Contains(out.str, "H")
                   /\ ~Contains(out.str, "T")
                   /\ \E rest \in {SubSeq(in.str, n, Len(in.str)) : n \in 1..(Len(in.str) + 1)} :
                          /\ in.str = out.str \o rest
                          /\ rest = <<>> \/ Head(rest) = "T"
            /\ in = DateT => out = DateOnly

C10_Witness ==
    /\ Transformed
    /\ transformed # <<>>
    /\ raw[1].Date = DateT
    /\ transformed[1].date = DateOnly

\* C11: the payee of a mapped record is its Vendor if the record has one,
\* otherwise its Merchant if it has one, otherwise "Unknown".  A record has
\* a Vendor (Merchant) when the key is in it, whatever value it holds.
C11_PayeeResolution ==
    (Transformed /\ transformed # <<>>) =>
        LET r == raw[origin[1]]
            payee == transformed[1].payee_name
        IN  /\ r.Vendor # Absent => payee = r.Vendor
            /\ (r.Vendor = Absent /\ r.Merchant # Absent) => payee = r.Merchant
            /\ (r.Vendor = Absent /\ r.Merchant = Absent) => payee = S(<<"Unknown">>)

C11_Witness ==
    /\ Transformed
    /\ transformed # <<>>
    /\ raw[1].Vendor = Absent
    /\ raw[1].Merchant = S(<<"M">>)
    /\ transformed[1].payee_name = S(<<"M">>)

\* the normalized transactions whose source record has no ID
NoSourceId == {k \in 1..Len(transformed) : raw[origin[k]].ID = Absent}

\* C12: the imported-id of a mapped record is the string form of its ID; a
\* record without ID gets the string "None", which is non-empty and is
\* tested against the existing ids like any other imported-id.
C12_ImportedId ==
    Transformed =>
        /\ \A k \in 1..Len(transformed) :
               LET id == raw[origin[k]].ID
               IN  transformed[k].imported_id =
                       IF id = Absent THEN S(<<"None">>) ELSE S(Str(id))
        /\ \A k \in NoSourceId :
               /\ transformed[k].imported_id.str # <<>>
               /\ k <= Len(disp) =>
                      ((disp[k] = "skipped") <=> (S(<<"None">>) \in existing_ids))

C12_Witness ==
    /\ pc = "done"
    /\ NoSourceId # {}
    /\ \E k \in NoSourceId : k <= Len(disp) /\ disp[k] = "skipped"
    /\ \E k \in NoSourceId : transformed[k].imported_id = S(<<"None">>)

\* the budget as it was downloaded when this run connected
StartBudget == SubSeq(session, 1, Len(session) - Cardinality(OkCreates))

\* C13: the existing imported-id set is read once per live run, before any
\* create, and the creates of the run do not change it: a transaction is
\* skipped according to what the destination held when the run started, so
\* two transactions of a batch sharing an imported-id that was not there at
\* the start are both submitted.
C13_ExistingIdsFixed ==
    /\ Cardinality(LogIdx("fetch")) <= 1
    /\ \A c \in LogIdx("create") : \E f \in LogIdx("fetch") : f < c
    /\ (pc \in {"loop", "exit", "done"} /\ LogHas("connect", TRUE)) =>
          /\ existing_ids =
                 IF LogHas("fetch", TRUE) THEN ExistingIds(StartBudget) ELSE {}
          /\ \A k \in 1..Len(disp) :
                 (disp[k] = "skipped") <=>
                     /\ LogHas("fetch", TRUE)
                     /\ Truthy(transformed[k].imported_id)
                     /\ transformed[k].imported_id \in ExistingIds(StartBudget)
          /\ \A j, k \in 1..Len(disp) :
                 ( /\ j < k
                   /\ transformed[j].imported_id = transformed[k].imported_id
                   /\ transformed[j].imported_id \notin ExistingIds(StartBudget) )
                 => CreatesOf(j) # {} /\ CreatesOf(k) # {}

C13_Witness ==
    /\ pc = "done"
    /\ LogHas("fetch", TRUE)
    /\ disp = <<"success", "success">>
    /\ Truthy(transformed[1].imported_id)
    /\ transformed[1].imported_id = transformed[2].imported_id

CountOf(kind) == Cardinality({k \in 1..Len(disp) : disp[k] = kind})
Total(st) == st.success + st.failed + st.skipped

\* a step taken while the connection is open leaves the counters alone or
\* processes one transaction, adding one to one counter
CounterStep ==
    pc \in {"fetch_existing", "loop", "exit"} =>
        /\ stats'.success >= stats.success
        /\ stats'.failed >= stats.failed
        /\ stats'.skipped >= stats.skipped
        /\ idx' = idx => stats' = stats
        /\ idx' # idx =>
               /\ idx' = idx + 1
               /\ \E key \in {"success", "failed", "skipped"} :
                      stats' = [stats EXCEPT ![key] = stats[key] + 1]

\* C14: at every point of the loop of a live run success + failed + skipped
\* is the number of normalized transactions processed so far, no counter
\* ever decreases, each processed transaction adds exactly one to exactly
\* one counter, and the stats returned sum to the number of normalized
\* transactions.
C14_CounterConservation ==
    /\ [](/\ Len(disp) = idx - 1
          /\ Total(stats) = Len(disp)
          /\ stats.success = CountOf("success")
          /\ stats.failed = CountOf("failed")
          /\ stats.skipped = CountOf("skipped")
          /\ (pc = "done" /\ ~dryRun /\ result # NoStats) =>
                 Total(result) = Len(transformed))
    /\ [][CounterStep]_vars

C14_Witness ==
    /\ pc = "done"
    /\ ~dryRun
    /\ result # NoStats
    /\ Len(transformed) = 2
    /\ result = [success |-> 0, failed |-> 1, skipped |-> 1]

====
